---- MODULE Spec2Model ----
(***************************************************************************)
(* Fertilizer Recommendation API (src/app.py).                             *)
(*                                                                         *)
(* The module-level code loads four pickled artifacts and builds three     *)
(* reverse (code -> name) dictionaries.  Two endpoints are then served by  *)
(* the worker threads of the HTTP layer: GET /categories and               *)
(* POST /recommend.  A request is modelled in the steps in which its       *)
(* handler reads the shared artifacts, so that requests interleave.        *)
(*                                                                         *)
(* Python values: a dict is the sequence of its items in insertion order   *)
(* (forward maps) or a function on its keys (reverse maps); the result of  *)
(* dict.get is a record [some, val] with some = FALSE for None; the        *)
(* one-row DataFrame is a record of its column labels and its values.      *)
(***************************************************************************)
EXTENDS Integers, Sequences, FiniteSets, TLC

\* ------------------------------------------------------------ bounds
\* Worker threads serving requests concurrently (SpecConc).
NumWorkers == 2
\* Category codes of the pickled mappings range over 0..MaxCode.
MaxCode == 1
\* The measurements of a request vary over 0..MaxMeasure above their base.
MaxMeasure == 1

Workers == 1 .. NumWorkers
Codes == 0 .. MaxCode
\* Soil_Type_ID / Crop_Type_ID of a request: every code, and one beyond.
Ids == 0 .. (MaxCode + 1)
\* Class codes the classifier can answer: every code, and one beyond.
Classes == 0 .. (MaxCode + 1)

\* ------------------------------------------------------------ names
\* The six attributes of FertilizerInput assigned to like-named columns,
\* in the order the handler assigns them.
NumericColumns ==
    << "Temparature", "Humidity", "Moisture", "Nitrogen", "Potassium", "Phosphorous" >>

SoilNames == { "", "Clay" }
CropNames == { "Maize" }
FertilizerNames == { "", "Urea" }

\* Column lists fertilizer_model_columns.pkl may hold.
\* The columns of the training frame: the numeric ones, then the indicators.
TrainingSchema ==
    << "Temparature", "Humidity", "Moisture", "Nitrogen", "Potassium", "Phosphorous",
       "Soil_Type_Clay", "Crop_Type_Maize" >>

\* Another order, a second crop indicator and no soil indicator.
ReorderedSchema ==
    << "Crop_Type_Maize", "Crop_Type_Rice", "Phosphorous", "Potassium", "Nitrogen",
       "Moisture", "Humidity", "Temparature" >>

\* A column list that lacks the numeric column Potassium.
DeficientSchema ==
    << "Temparature", "Humidity", "Moisture", "Nitrogen", "Phosphorous",
       "Soil_Type_Clay", "Crop_Type_Maize" >>

Schemas == { TrainingSchema, ReorderedSchema, DeficientSchema }

Range(s) == { s[i] : i \in DOMAIN s }

\* ------------------------------------------------------------ dicts
\* The name -> code dicts a pickle may hold over the given names: non-empty
\* item sequences (insertion order) with pairwise different keys.
ForwardMaps(names) ==
    UNION { { m \in [1 .. n -> [name : names, code : Codes]] :
                \A i, j \in 1 .. n : i # j => m[i].name # m[j].name } :
            n \in 1 .. Cardinality(names) }

\* {v: k for k, v in forward.items()}: a later item overwrites an earlier
\* one with the same value.
RECURSIVE Reverse(_)
Reverse(items) ==
    IF items = << >> THEN << >>
    ELSE LET n == Len(items)
             prev == Reverse(SubSeq(items, 1, n - 1))
             last == items[n]
         IN  [c \in (DOMAIN prev) \cup {last.code} |->
                 IF c = last.code THEN last.name ELSE prev[c]]

\* Mutant of Get: dict.get(key, default) with the name "Urea" as default.
GetWithDefault(map, key) ==
    IF key \in DOMAIN map THEN [some |-> TRUE, val |-> map[key]]
    ELSE [some |-> TRUE, val |-> "Urea"]

\* dict.get(key): the value, or None.
Get(map, key) ==
    IF key \in DOMAIN map THEN [some |-> TRUE, val |-> map[key]]
    ELSE [some |-> FALSE, val |-> ""]

\* Mutant of Falsy: `x is None` in place of `not x`.
FalsyNoneOnly(x) == ~x.some

\* Python's `not x` for x a str or None.
Falsy(x) == ~x.some \/ x.val = ""

\* ------------------------------------------------------------ DataFrame
\* pd.DataFrame(0, index=[0], columns=cols): one row of zeros.
NewFrame(cols) == [columns |-> cols, values |-> [i \in DOMAIN cols |-> 0]]

\* df[col] = v: overwrites the column when the label exists, and appends a
\* new column at the end when it does not (pandas raises no error).
SetColumn(df, col, v) ==
    IF col \in Range(df.columns)
    THEN [df EXCEPT !.values = [i \in DOMAIN df.values |->
                                   IF df.columns[i] = col THEN v ELSE df.values[i]]]
    ELSE [columns |-> Append(df.columns, col), values |-> Append(df.values, v)]

\* input_df['Temparature'] = data.Temparature ... input_df['Phosphorous'] =
\* data.Phosphorous, in that order.
RECURSIVE AssignNumeric(_, _, _)
AssignNumeric(df, cols, data) ==
    IF cols = << >> THEN df
    ELSE AssignNumeric(SetColumn(df, Head(cols), data[Head(cols)]), Tail(cols), data)

\* Mutant of OneHot: input_df[col] = 1 without the membership test.
OneHotUnchecked(df, col) ==
    IF col \in Range(df.columns)
    THEN [df EXCEPT !.values = [i \in DOMAIN df.values |->
                                   IF df.columns[i] = col THEN 1 ELSE df.values[i]]]
    ELSE [columns |-> Append(df.columns, col), values |-> Append(df.values, 1)]

\* if col in input_df.columns: input_df[col] = 1
OneHot(df, col) == IF col \in Range(df.columns) THEN SetColumn(df, col, 1) ELSE df

\* ------------------------------------------------------------ scaler, model
\* scaler.transform(input_df): the fitted scaler takes exactly the columns
\* it was fitted on (the pickled column list) and raises ValueError otherwise.
ScalerAccepts(df, cols) == df.columns = cols

\* The scaled array: one value per position, shifted per position; the
\* column labels are gone.
Transform(df) == [i \in DOMAIN df.values |-> df.values[i] - i]

RECURSIVE Weighted(_, _)
Weighted(x, n) == IF n = 0 THEN 0 ELSE n * x[n] + Weighted(x, n - 1)

\* model.predict(input_scaled)[0]: a class code, a function of the array.
PredictClass(x) == Weighted(x, Len(x)) % Cardinality(Classes)

\* ------------------------------------------------------------ exceptions
InvalidCategory ==
    [type |-> "HTTPException", status |-> 400,
     detail |-> "Invalid Soil Type or Crop Type ID provided."]

UnmappablePrediction ==
    [type |-> "HTTPException", status |-> 500,
     detail |-> "Could not map prediction to a fertilizer name."]

ScalerError == [type |-> "ValueError", status |-> 0, detail |-> "feature names mismatch"]

\* Mutant of Handle: without `except HTTPException: raise e`, every
\* exception is rewritten into a 500.
HandleRewrite(exc) ==
    [status |-> 500,
     detail |-> "An internal server error occurred: " \o exc.detail,
     body |-> ""]

\* except HTTPException as e: raise e
\* except Exception as e: raise HTTPException(status_code=500, ...)
Handle(exc) ==
    IF exc.type = "HTTPException"
    THEN [status |-> exc.status, detail |-> exc.detail, body |-> ""]
    ELSE [status |-> 500,
          detail |-> "An internal server error occurred: " \o exc.detail,
          body |-> ""]

\* return {"recommended_fertilizer": recommendation}
Recommended(name) == [status |-> 200, detail |-> "", body |-> name]

NoResponse == [status |-> 0, detail |-> "", body |-> ""]

\* ------------------------------------------------------------ requests
\* FertilizerInput: Temparature ranges over 30 .. 30 + MaxMeasure, the other
\* measurements have a value of their own each.
Payload(t, soil, crop) ==
    [Temparature |-> 30 + t, Humidity |-> 60, Moisture |-> 50,
     Nitrogen |-> 20, Potassium |-> 0, Phosphorous |-> 10,
     Soil_Type_ID |-> soil, Crop_Type_ID |-> crop]

Inputs == { Payload(t, soil, crop) : t \in 0 .. MaxMeasure, soil \in Ids, crop \in Ids }

NoInput == Payload(0, 0, 0)

Idle ==
    [pc |-> "idle", kind |-> "none", data |-> NoInput, df |-> NewFrame(<< >>),
     scaler_calls |-> 0, predict_calls |-> 0, predicted |-> -1,
     out |-> NoResponse, listing |-> << >>]

\* [{"id": v, "name": k} for k, v in forward.items()]
Listing(items) == [i \in DOMAIN items |-> [id |-> items[i].code, name |-> items[i].name]]

\* ------------------------------------------------------------ state
VARIABLES
    files_present,            \* whether every .pkl file can be opened
    disk,                     \* what the .pkl files hold
    phase,                    \* "boot", "serving" or "fatal"
    pool,                     \* the worker threads of the HTTP layer
    model_columns,            \* fertilizer_model_columns.pkl, loaded
    backend_mappings,         \* fertilizer_backend_mappings.pkl, loaded
    reverse_soil_map,
    reverse_crop_map,
    reverse_fertilizer_map,
    req                       \* per worker: the request it is serving

artifacts ==
    << model_columns, backend_mappings, reverse_soil_map, reverse_crop_map,
       reverse_fertilizer_map >>

vars == << files_present, disk, phase, pool, model_columns, backend_mappings,
           reverse_soil_map, reverse_crop_map, reverse_fertilizer_map, req >>

NoMappings == [soil_type_map |-> << >>, crop_type_map |-> << >>, fertilizer_map |-> << >>]

Boot(threads) ==
    /\ phase = "boot"
    /\ pool = threads
    /\ model_columns = << >>
    /\ backend_mappings = NoMappings
    /\ reverse_soil_map = << >>
    /\ reverse_crop_map = << >>
    /\ reverse_fertilizer_map = << >>
    /\ req = [r \in threads |-> Idle]

\* One worker, any artifacts.
Init ==
    /\ files_present \in BOOLEAN
    /\ disk \in [columns : Schemas,
                 soil_type_map : ForwardMaps(SoilNames),
                 crop_type_map : ForwardMaps(CropNames),
                 fertilizer_map : ForwardMaps(FertilizerNames)]
    /\ Boot({1})

\* ------------------------------------------------------------ startup
\* Lines 25-40: the artifacts are unpickled and the reverse maps built; a
\* file that cannot be opened raises RuntimeError and the process ends.
LoadArtifacts ==
    /\ phase = "boot"
    /\ IF files_present
       THEN /\ model_columns' = disk.columns
            /\ backend_mappings' =
                   [soil_type_map |-> disk.soil_type_map,
                    crop_type_map |-> disk.crop_type_map,
                    fertilizer_map |-> disk.fertilizer_map]
            /\ reverse_soil_map' = Reverse(disk.soil_type_map)
            /\ reverse_crop_map' = Reverse(disk.crop_type_map)
            /\ reverse_fertilizer_map' = Reverse(disk.fertilizer_map)
            /\ phase' = "serving"
       ELSE /\ phase' = "fatal"
            /\ UNCHANGED artifacts
    /\ UNCHANGED << files_present, disk, pool, req >>

\* ------------------------------------------------------------ GET /categories
get_categories(r) ==
    /\ phase = "serving"
    /\ req[r].pc = "idle"
    /\ req' = [req EXCEPT ![r] =
                  [Idle EXCEPT !.pc = "done", !.kind = "categories",
                               !.out = [status |-> 200, detail |-> "", body |-> ""],
                               !.listing = << Listing(backend_mappings.soil_type_map),
                                              Listing(backend_mappings.crop_type_map) >>]]
    /\ UNCHANGED << files_present, disk, phase, pool, artifacts >>

\* ------------------------------------------------------------ POST /recommend
\* Mutant of BuildFrame: the frame's column index is the shared list itself,
\* so a column the assignments append lands in model_columns.
BuildFrameShared(r) ==
    /\ phase = "serving"
    /\ req[r].pc = "idle"
    /\ \E data \in Inputs :
          LET df == AssignNumeric(NewFrame(model_columns), NumericColumns, data)
          IN  /\ req' = [req EXCEPT ![r] =
                            [Idle EXCEPT !.pc = "built", !.kind = "recommend",
                                         !.data = data, !.df = df]]
              /\ model_columns' = df.columns
    /\ UNCHANGED << files_present, disk, phase, pool, backend_mappings,
                    reverse_soil_map, reverse_crop_map, reverse_fertilizer_map >>

\* Lines 82-88: the frame of zeros and the six numeric assignments.
BuildFrame(r) ==
    /\ phase = "serving"
    /\ req[r].pc = "idle"
    /\ \E data \in Inputs :
          req' = [req EXCEPT ![r] =
                     [Idle EXCEPT !.pc = "built", !.kind = "recommend", !.data = data,
                                  !.df = AssignNumeric(NewFrame(model_columns),
                                                       NumericColumns, data)]]
    /\ UNCHANGED << files_present, disk, phase, pool, artifacts >>

\* Lines 90-102: the two reverse lookups, the 400 and the one-hot columns.
EncodeCategories(r) ==
    /\ req[r].pc = "built"
    /\ LET soil_name == Get(reverse_soil_map, req[r].data.Soil_Type_ID)
           crop_name == Get(reverse_crop_map, req[r].data.Crop_Type_ID)
           soil_col == "Soil_Type_" \o soil_name.val
           crop_col == "Crop_Type_" \o crop_name.val
       IN  IF Falsy(soil_name) \/ Falsy(crop_name)
           THEN req' = [req EXCEPT ![r].pc = "done", ![r].out = Handle(InvalidCategory)]
           ELSE req' = [req EXCEPT ![r].pc = "encoded",
                                   ![r].df = OneHot(OneHot(req[r].df, soil_col), crop_col)]
    /\ UNCHANGED << files_present, disk, phase, pool, artifacts >>

\* Mutant of PredictAndMap: reverse_fertilizer_map.pop(...) in place of
\* .get(...), which takes the entry of the predicted class out of the map.
PredictAndMapPop(r) ==
    /\ req[r].pc = "encoded"
    /\ IF ~ScalerAccepts(req[r].df, model_columns)
       THEN /\ req' = [req EXCEPT ![r].pc = "done", ![r].scaler_calls = @ + 1,
                                  ![r].out = Handle(ScalerError)]
            /\ UNCHANGED reverse_fertilizer_map
       ELSE LET predicted_fertilizer_num == PredictClass(Transform(req[r].df))
                recommendation == Get(reverse_fertilizer_map, predicted_fertilizer_num)
            IN  /\ req' = [req EXCEPT ![r].pc = "done",
                                      ![r].scaler_calls = @ + 1,
                                      ![r].predict_calls = @ + 1,
                                      ![r].predicted = predicted_fertilizer_num,
                                      ![r].out = IF Falsy(recommendation)
                                                 THEN Handle(UnmappablePrediction)
                                                 ELSE Recommended(recommendation.val)]
                /\ reverse_fertilizer_map' =
                       [c \in (DOMAIN reverse_fertilizer_map) \ {predicted_fertilizer_num} |->
                           reverse_fertilizer_map[c]]
    /\ UNCHANGED << files_present, disk, phase, pool, model_columns, backend_mappings,
                    reverse_soil_map, reverse_crop_map >>

\* Lines 104-111: scaler.transform, model.predict, the reverse lookup of the
\* class code and the response.
PredictAndMap(r) ==
    /\ req[r].pc = "encoded"
    /\ IF ~ScalerAccepts(req[r].df, model_columns)
       THEN req' = [req EXCEPT ![r].pc = "done", ![r].scaler_calls = @ + 1,
                               ![r].out = Handle(ScalerError)]
       ELSE LET predicted_fertilizer_num == PredictClass(Transform(req[r].df))
                recommendation == Get(reverse_fertilizer_map, predicted_fertilizer_num)
            IN  req' = [req EXCEPT ![r].pc = "done",
                                   ![r].scaler_calls = @ + 1,
                                   ![r].predict_calls = @ + 1,
                                   ![r].predicted = predicted_fertilizer_num,
                                   ![r].out = IF Falsy(recommendation)
                                              THEN Handle(UnmappablePrediction)
                                              ELSE Recommended(recommendation.val)]
    /\ UNCHANGED << files_present, disk, phase, pool, artifacts >>

\* The response leaves and the worker takes the next request.
Respond(r) ==
    /\ req[r].pc = "done"
    /\ req' = [req EXCEPT ![r] = Idle]
    /\ UNCHANGED << files_present, disk, phase, pool, artifacts >>

Next ==
    \/ LoadArtifacts
    \/ \E r \in pool : get_categories(r)
    \/ \E r \in pool : BuildFrame(r)
    \/ \E r \in pool : EncodeCategories(r)
    \/ \E r \in pool : PredictAndMap(r)
    \/ \E r \in pool : Respond(r)

Spec == Init /\ [][Next]_vars

\* NumWorkers concurrent workers, over artifacts that produce every kind of
\* response: a soil code with an empty name, a fertilizer code with an empty
\* name, codes without a name, and a column list with and without every
\* numeric column.
ConcurrentDisks ==
    { [columns |-> s,
       soil_type_map |-> << [name |-> "Clay", code |-> 0], [name |-> "", code |-> MaxCode] >>,
       crop_type_map |-> << [name |-> "Maize", code |-> 0] >>,
       fertilizer_map |-> << [name |-> "Urea", code |-> 0], [name |-> "", code |-> MaxCode] >>] :
      s \in { TrainingSchema, DeficientSchema } }

InitConc ==
    /\ files_present = TRUE
    /\ disk \in ConcurrentDisks
    /\ Boot(Workers)

SpecConc == InitConc /\ [][Next]_vars

\* ------------------------------------------------------------ properties
Recommending(r) == req[r].kind = "recommend"

Answered(r) == req[r].kind = "recommend" /\ req[r].pc = "done"

\* Both category IDs of the request are keys of their reverse maps.
ValidIds(data) ==
    /\ data.Soil_Type_ID \in DOMAIN reverse_soil_map
    /\ data.Crop_Type_ID \in DOMAIN reverse_crop_map

\* The frame has reached scaler.transform.
AtScaler(r) == Recommending(r) /\ (req[r].pc = "encoded" \/ req[r].scaler_calls = 1)

\* C1: a recommend request with a Soil_Type_ID or Crop_Type_ID that is no key
\* of its reverse map never reaches scaler.transform or model.predict, and is
\* answered with the 400 of InvalidCategory, not rewritten into a 500.
C1_InvalidIdRejected ==
    \A r \in pool :
        Recommending(r) /\ ~ValidIds(req[r].data) =>
            /\ req[r].pc \in { "built", "done" }
            /\ req[r].scaler_calls = 0
            /\ req[r].predict_calls = 0
            /\ req[r].pc = "done" =>
                   req[r].out = [status |-> 400,
                                 detail |-> "Invalid Soil Type or Crop Type ID provided.",
                                 body |-> ""]

C1_Witness ==
    \E r \in pool :
        /\ Answered(r)
        /\ req[r].data.Soil_Type_ID \notin DOMAIN reverse_soil_map
        /\ req[r].data.Crop_Type_ID \in DOMAIN reverse_crop_map
        /\ req[r].out.status = 400

\* The body of a 200 is a name of the fertilizer mapping whose code is the
\* class the model predicted.
MappedName(r) ==
    /\ req[r].out.body # ""
    /\ req[r].predict_calls = 1
    /\ \E i \in DOMAIN backend_mappings.fertilizer_map :
          /\ backend_mappings.fertilizer_map[i].name = req[r].out.body
          /\ backend_mappings.fertilizer_map[i].code = req[r].predicted

C3_UnmappablePredictionIs500 ==
    \A r \in pool :
        /\ Answered(r)
        /\ req[r].predict_calls = 1
        /\ req[r].predicted \notin DOMAIN reverse_fertilizer_map
        => /\ req[r].out = [status |-> 500,
                            detail |-> "Could not map prediction to a fertilizer name.",
                            body |-> ""]
           /\ phase = "serving"

C3_Witness ==
    \E r \in pool :
        /\ Answered(r)
        /\ req[r].predict_calls = 1
        /\ req[r].predicted \notin DOMAIN reverse_fertilizer_map
        /\ reverse_fertilizer_map # << >>

Value(df, c) == df.values[CHOOSE i \in DOMAIN df.columns : df.columns[i] = c]

\* C4: the frame handed to the scaler holds the six measurements in the six
\* numeric columns, 1 in the soil and crop indicator of the request where the
\* schema has that column, and 0 in every other column; an indicator the
\* schema lacks is not added, so all columns of that category are 0.
C4_FeatureRow ==
    \A r \in pool :
        AtScaler(r) =>
            LET df == req[r].df
                data == req[r].data
                soil_col == "Soil_Type_" \o reverse_soil_map[data.Soil_Type_ID]
                crop_col == "Crop_Type_" \o reverse_crop_map[data.Crop_Type_ID]
            IN  /\ Range(model_columns) \subseteq Range(df.columns)
                /\ \A c \in Range(NumericColumns) :
                      c \in Range(df.columns) /\ Value(df, c) = data[c]
                /\ \A c \in { soil_col, crop_col } :
                      IF c \in Range(model_columns)
                      THEN Value(df, c) = 1
                      ELSE c \notin Range(df.columns)
                /\ \A i \in DOMAIN df.columns :
                      df.columns[i] \notin Range(NumericColumns) \cup { soil_col, crop_col }
                          => df.values[i] = 0

C4_Witness ==
    \E r \in pool :
        /\ AtScaler(r)
        /\ req[r].scaler_calls = 1
        /\ "Soil_Type_" \o reverse_soil_map[req[r].data.Soil_Type_ID]
               \notin Range(model_columns)
        /\ "Crop_Type_" \o reverse_crop_map[req[r].data.Crop_Type_ID]
               \in Range(model_columns)
        /\ "Crop_Type_Rice" \in Range(model_columns)

\* C5 (as stated): the frame passed to the scaler has exactly the columns of
\* the loaded column list, in its order.
C5_SchemaAligned ==
    \A r \in pool : AtScaler(r) => req[r].df.columns = model_columns

\* C6 (as stated): with a numeric column missing from the pickled column list
\* startup fails, and no recommend request is taken.
C6_MissingNumericColumnIsFatal ==
    ~(Range(NumericColumns) \subseteq Range(disk.columns)) =>
        /\ phase \in { "boot", "fatal" }
        /\ \A r \in pool : ~Recommending(r)

Bijective(forward, reverse) ==
    /\ Cardinality(DOMAIN reverse) = Len(forward)
    /\ \A i \in DOMAIN forward : reverse[forward[i].code] = forward[i].name

\* C7 (as stated): while requests are served, every reverse map has as many
\* entries as its forward map and inverts it.
C7_ReverseMapsInvertForward ==
    phase = "serving" =>
        /\ Bijective(backend_mappings.soil_type_map, reverse_soil_map)
        /\ Bijective(backend_mappings.crop_type_map, reverse_crop_map)
        /\ Bijective(backend_mappings.fertilizer_map, reverse_fertilizer_map)

\* C8: once loaded, the column list, the forward maps and the reverse maps
\* never change, whatever requests run and however they end, and a step of
\* one request leaves the other requests' frames and responses alone.
C8_ArtifactsReadOnly ==
    [][phase = "serving" =>
          /\ artifacts' = artifacts
          /\ \E r \in pool : \A q \in pool \ {r} : req'[q] = req[q]]_vars

C8_Witness ==
    \E r, q \in pool :
        /\ r # q
        /\ Answered(r) /\ req[r].out.status = 400
        /\ Recommending(q) /\ req[q].pc = "encoded"
        /\ model_columns = DeficientSchema

\* C9: two answered recommend requests with the same input have the same
\* response, whatever else was served before, between or beside them.
C9_Idempotent ==
    \A r, q \in pool :
        Answered(r) /\ Answered(q) /\ req[r].data = req[q].data =>
            req[r].out = req[q].out

C9_Witness ==
    \E r, q \in pool :
        /\ r # q
        /\ Answered(r) /\ Answered(q)
        /\ req[r].data = req[q].data
        /\ req[r].out.status = 200
        /\ req[r].predict_calls = 1

\* C10 (as stated): a request with both IDs in their reverse maps is not
\* answered with the 400 of InvalidCategory and reaches the scaler.
C10_OnlyMissingIdsRejected ==
    \A r \in pool :
        Answered(r) /\ ValidIds(req[r].data) =>
            req[r].out.status # 400 /\ req[r].scaler_calls = 1

====
